---- MODULE Spec2Model ----
(***************************************************************************)
(* Model of backend/api/views.py: the upload, summary, history and PDF     *)
(* report handlers over the Dataset / Equipment tables.                    *)
(*                                                                         *)
(* Text is modelled as TLA+ strings, file names as sequences of characters *)
(* (so that str.endswith can be computed), numbers as integers, averages   *)
(* as exact fractions num/den.                                             *)
(***************************************************************************)
EXTENDS Integers, Sequences, FiniteSets, TLC

VARIABLES
    datasets,    \* the Dataset table, in primary-key order
    equipment,   \* the Equipment table, in primary-key order
    clock,       \* the wall clock read by Dataset.upload_date
    inflight,    \* uploads that created their Dataset and have not yet bulk-inserted
    request,     \* the request the last handler served
    response     \* the response the last handler returned

vars == <<datasets, equipment, clock, inflight, request, response>>

----------------------------------------------------------------------------
(* Bounds of the model *)

MaxRows == 2
MaxDatasets == 2
MaxRecords == 3
MaxHistoryDatasets == 6
MaxInflight == 1

(* Program constants *)

HTTP_200_OK == 200
HTTP_201_CREATED == 201
HTTP_400_BAD_REQUEST == 400
HTTP_404_NOT_FOUND == 404
HTTP_500_INTERNAL_SERVER_ERROR == 500
HistoryLimit == 5
ReportRowLimit == 20

required_cols == <<"Equipment Name", "Type", "Flowrate", "Pressure", "Temperature">>

csv_suffix == <<".", "c", "s", "v">>

----------------------------------------------------------------------------
(* Python values *)

Range(s) == {s[i] : i \in DOMAIN s}

\* str.endswith
endswith(s, suffix) ==
    /\ Len(s) >= Len(suffix)
    /\ SubSeq(s, Len(s) - Len(suffix) + 1, Len(s)) = suffix

\* The decimal literals that occur in the uploaded files, with their values.
NumericLiteral == ("5" :> 5) @@ ("10" :> 10) @@ ("20" :> 20) @@ ("1" :> 1)
                  @@ ("2" :> 2) @@ ("4" :> 4) @@ ("25" :> 25) @@ ("30" :> 30)
                  @@ ("40" :> 40)

NoExc == [type |-> "", msg |-> ""]

\* FloatField.get_prep_value: float(value), or ValueError
to_float(cell) ==
    IF cell \in DOMAIN NumericLiteral
    THEN [exc |-> NoExc, value |-> NumericLiteral[cell]]
    ELSE [exc |-> [type |-> "ValueError", msg |-> "expected a number but got " \o cell],
          value |-> 0]

PyNone == [tag |-> "None", num |-> 0, den |-> 1]
PyInt(n) == [tag |-> "int", num |-> n, den |-> 1]
PyFloat(n, d) == [tag |-> "float", num |-> n, den |-> d]

RECURSIVE SumSeq(_)
SumSeq(s) == IF s = <<>> THEN 0 ELSE Head(s) + SumSeq(Tail(s))

----------------------------------------------------------------------------
(* Responses *)

NoDoc == [attachment |-> <<>>, title |-> <<>>, upload_date |-> 0,
          stats |-> <<>>, rows |-> <<>>]

Response(status, kind, error, id, summaries, doc) ==
    [status |-> status, kind |-> kind, error |-> error, id |-> id,
     summaries |-> summaries, document |-> doc]

ErrorResponse(msg, status) == Response(status, "error", msg, 0, <<>>, NoDoc)

NoRequest == [op |-> "none", has_file |-> FALSE, name |-> <<>>, parses |-> FALSE,
              columns |-> <<>>, rows |-> <<>>, pk |-> 0, render_fails |-> FALSE]

NoResponse == Response(0, "none", "", 0, <<>>, NoDoc)

----------------------------------------------------------------------------
(* The tables and their queries (Django ORM) *)

\* DateTimeField(auto_now_add=True): the time of creation
auto_now_add(clk) == clk

\* Dataset.objects.create(filename=...)
Dataset_objects_create(ds, filename, clk) ==
    Append(ds, [id |-> Len(ds) + 1, filename |-> filename,
                upload_date |-> auto_now_add(clk)])

\* The first numeric field of the first object that float() rejects, if any.
RECURSIVE first_prep_error(_)
first_prep_error(objs) ==
    IF objs = <<>> THEN NoExc
    ELSE LET o == Head(objs)
             f == to_float(o.flowrate).exc
             p == to_float(o.pressure).exc
             t == to_float(o.temperature).exc
         IN  IF f # NoExc THEN f
             ELSE IF p # NoExc THEN p
             ELSE IF t # NoExc THEN t
             ELSE first_prep_error(Tail(objs))

RECURSIVE insert_all(_, _)
insert_all(eq, objs) ==
    IF objs = <<>> THEN eq
    ELSE LET o == Head(objs)
         IN  insert_all(
                 Append(eq, [id |-> Len(eq) + 1, dataset |-> o.dataset,
                             name |-> o.name, type |-> o.type,
                             flowrate |-> to_float(o.flowrate).value,
                             pressure |-> to_float(o.pressure).value,
                             temperature |-> to_float(o.temperature).value]),
                 Tail(objs))

\* Equipment.objects.bulk_create(equipment_list): every value is prepared
\* before the INSERT runs, and the INSERT is one atomic statement.
bulk_create(eq, objs) ==
    LET e == first_prep_error(objs)
    IN  IF e # NoExc THEN [exc |-> e, equipment |-> eq]
        ELSE [exc |-> NoExc, equipment |-> insert_all(eq, objs)]

\* dataset.equipment.all()
equipment_all(eq, ds_id) == SelectSeq(eq, LAMBDA e : e.dataset = ds_id)

\* equipment.aggregate(Avg(field))[field__avg], given the field's values
Avg(values) ==
    IF values = <<>> THEN PyNone ELSE PyFloat(SumSeq(values), Len(values))

\* the aggregate used as it is, without  or 0
without_default(x) == x

\* Python's  x or 0
or_zero(x) == IF x.tag = "None" \/ x.num = 0 THEN PyInt(0) ELSE x

\* Count('type', distinct=True): every group counts 1
type_counts_distinct(records) ==
    {[type |-> t, count |-> 1] : t \in {records[i].type : i \in DOMAIN records}}

\* equipment.values('type').annotate(count=Count('type')): one row per type
type_counts(records) ==
    {[type |-> t,
      count |-> Cardinality({i \in DOMAIN records : records[i].type = t})]
        : t \in {records[i].type : i \in DOMAIN records}}

\* {item['type']: item['count'] for item in type_counts}
type_distribution_of(counts) ==
    [t \in {item.type : item \in counts} |->
        (CHOOSE item \in counts : item.type = t).count]

\* order_by('upload_date'): oldest first
RECURSIVE order_by_upload_date_asc(_)
order_by_upload_date_asc(ds) ==
    IF ds = {} THEN <<>>
    ELSE LET d == CHOOSE x \in ds : \A y \in ds : x.upload_date <= y.upload_date
         IN  <<d>> \o order_by_upload_date_asc(ds \ {d})

\* Dataset.objects.order_by('-upload_date')
RECURSIVE order_by_upload_date_desc(_)
order_by_upload_date_desc(ds) ==
    IF ds = {} THEN <<>>
    ELSE LET d == CHOOSE x \in ds : \A y \in ds : y.upload_date <= x.upload_date
         IN  <<d>> \o order_by_upload_date_desc(ds \ {d})

\* queryset[:n + 1]
slice_through(s, n) == SubSeq(s, 1, IF Len(s) < n + 1 THEN Len(s) ELSE n + 1)

\* queryset[:n]
slice_to(s, n) == SubSeq(s, 1, IF Len(s) < n THEN Len(s) ELSE n)

\* queryset.first()
first(s) == IF s = <<>> THEN <<>> ELSE <<s[1]>>

\* Dataset.objects.get(pk=pk)
Dataset_objects_get(ds, pk) ==
    IF pk \in DOMAIN ds
    THEN [exc |-> NoExc, dataset |-> <<ds[pk]>>]
    ELSE [exc |-> [type |-> "DoesNotExist",
                   msg |-> "Dataset matching query does not exist."],
          dataset |-> <<>>]

\* EquipmentSerializer(equipment, many=True).data: the record's identity and
\* its five fields under the keys the report reads
EquipmentSerializer(records) ==
    [i \in DOMAIN records |->
        [id |-> records[i].id, Equipment_Name |-> records[i].name,
         Type |-> records[i].type, Flowrate |-> records[i].flowrate,
         Pressure |-> records[i].pressure,
         Temperature |-> records[i].temperature]]

----------------------------------------------------------------------------
(* get_dataset_summary *)

field_values(records, field) ==
    [i \in DOMAIN records |->
        CASE field = "flowrate" -> records[i].flowrate
          [] field = "pressure" -> records[i].pressure
          [] field = "temperature" -> records[i].temperature]

get_dataset_summary(dataset, eq) ==
    LET records == equipment_all(eq, dataset.id)
    IN  [id |-> dataset.id,
         filename |-> dataset.filename,
         upload_date |-> dataset.upload_date,
         avg_flowrate |-> or_zero(Avg(field_values(records, "flowrate"))),
         avg_pressure |-> or_zero(Avg(field_values(records, "pressure"))),
         avg_temperature |-> or_zero(Avg(field_values(records, "temperature"))),
         type_distribution |-> type_distribution_of(type_counts(records)),
         data |-> EquipmentSerializer(records)]

----------------------------------------------------------------------------
(* UploadView.post *)

\* pd.read_csv(file_obj): the header and the rows, or a parser error
read_csv(req) ==
    IF req.parses
    THEN [exc |-> NoExc, columns |-> req.columns, rows |-> req.rows]
    ELSE [exc |-> [type |-> "ParserError", msg |-> "Error tokenizing data"],
          columns |-> <<>>, rows |-> <<>>]

\* any(col in df.columns for col in required_cols)
has_any_required_col(columns) ==
    \E i \in DOMAIN required_cols : required_cols[i] \in Range(columns)

\* all(col in df.columns for col in required_cols)
has_required_cols(columns) ==
    \A i \in DOMAIN required_cols : required_cols[i] \in Range(columns)

\* row[col]: the cell under that column, or KeyError
row_get(columns, row, col) ==
    IF \E i \in DOMAIN columns : columns[i] = col
    THEN [exc |-> NoExc,
          value |-> row[CHOOSE i \in DOMAIN columns : columns[i] = col]]
    ELSE [exc |-> [type |-> "KeyError", msg |-> col], value |-> ""]

\* Equipment(dataset=dataset, name=row['Equipment Name'], ...)
Equipment(dataset_id, columns, row) ==
    LET n == row_get(columns, row, "Equipment Name")
        t == row_get(columns, row, "Type")
        f == row_get(columns, row, "Flowrate")
        p == row_get(columns, row, "Pressure")
        c == row_get(columns, row, "Temperature")
        e == IF n.exc # NoExc THEN n.exc
             ELSE IF t.exc # NoExc THEN t.exc
             ELSE IF f.exc # NoExc THEN f.exc
             ELSE IF p.exc # NoExc THEN p.exc
             ELSE c.exc
    IN  [exc |-> e,
         object |-> [dataset |-> dataset_id, name |-> n.value, type |-> t.value,
                     flowrate |-> f.value, pressure |-> p.value,
                     temperature |-> c.value]]

\* equipment_list, or the first exception raised while building it
collect(made) ==
    IF \E i \in DOMAIN made : made[i].exc # NoExc
    THEN [exc |-> made[CHOOSE i \in DOMAIN made :
                          /\ made[i].exc # NoExc
                          /\ \A j \in 1..(i - 1) : made[j].exc = NoExc].exc,
          list |-> <<>>]
    ELSE [exc |-> NoExc, list |-> [i \in DOMAIN made |-> made[i].object]]

\* the loop with equipment_list.insert(0, ...): the rows end up reversed
build_equipment_list_reversed(dataset_id, columns, rows) ==
    collect([i \in DOMAIN rows |->
                Equipment(dataset_id, columns, rows[Len(rows) + 1 - i])])

\* the loop over df.iterrows() that fills equipment_list, in row order
build_equipment_list(dataset_id, columns, rows) ==
    collect([i \in DOMAIN rows |-> Equipment(dataset_id, columns, rows[i])])

\* except Exception as e, answered 400
upload_except_bad_request(e) == ErrorResponse(e.msg, HTTP_400_BAD_REQUEST)

\* except Exception as e
upload_except(e) == ErrorResponse(e.msg, HTTP_500_INTERNAL_SERVER_ERROR)

NoPending == [dataset |-> 0, equipment_list |-> <<>>]

\* The handler up to and including Dataset.objects.create and the loop that
\* builds equipment_list: either it has returned (done), or the Dataset row is
\* committed and the list waits for bulk_create.
upload_first_part(req, ds, clk) ==
    IF ~req.has_file
    THEN [done |-> TRUE, datasets |-> ds, pending |-> NoPending,
          response |-> ErrorResponse("No file uploaded", HTTP_400_BAD_REQUEST)]
    ELSE IF ~endswith(req.name, csv_suffix)
    THEN [done |-> TRUE, datasets |-> ds, pending |-> NoPending,
          response |-> ErrorResponse("File must be a CSV", HTTP_400_BAD_REQUEST)]
    ELSE LET df == read_csv(req)
         IN  IF df.exc # NoExc
             THEN [done |-> TRUE, datasets |-> ds, pending |-> NoPending,
                   response |-> upload_except(df.exc)]
             ELSE IF ~has_required_cols(df.columns)
             THEN [done |-> TRUE, datasets |-> ds, pending |-> NoPending,
                   response |-> ErrorResponse("Missing columns",
                                              HTTP_400_BAD_REQUEST)]
             ELSE LET created == Dataset_objects_create(ds, req.name, clk)
                      dataset == created[Len(created)]
                      built == build_equipment_list(dataset.id, df.columns, df.rows)
                  IN  IF built.exc # NoExc
                      THEN [done |-> TRUE, datasets |-> created,
                            pending |-> NoPending,
                            response |-> upload_except(built.exc)]
                      ELSE [done |-> FALSE, datasets |-> created,
                            pending |-> [dataset |-> dataset.id,
                                         equipment_list |-> built.list],
                            response |-> NoResponse]

\* Equipment.objects.bulk_create(equipment_list) and the return that follows
upload_second_part(pending, eq) ==
    LET r == bulk_create(eq, pending.equipment_list)
    IN  IF r.exc # NoExc
        THEN [equipment |-> r.equipment, response |-> upload_except(r.exc)]
        ELSE [equipment |-> r.equipment,
              response |-> Response(HTTP_201_CREATED, "created", "",
                                    pending.dataset, <<>>, NoDoc)]

\* The whole handler, one request served from start to finish.
UploadView_post(req) ==
    \E a \in {upload_first_part(req, datasets, clock)} :
        /\ req.op = "upload"
        /\ inflight = <<>>
        /\ request' = req
        /\ datasets' = a.datasets
        /\ clock' = IF a.datasets = datasets THEN clock ELSE clock + 1
        /\ inflight' = inflight
        /\ IF a.done
           THEN /\ equipment' = equipment
                /\ response' = a.response
           ELSE \E b \in {upload_second_part(a.pending, equipment)} :
                    /\ equipment' = b.equipment
                    /\ response' = b.response

----------------------------------------------------------------------------
(* SummaryView.get *)

SummaryView_get ==
    LET latest_dataset == first(order_by_upload_date_desc(Range(datasets)))
    IN  /\ request' = [NoRequest EXCEPT !.op = "summary"]
        /\ response' =
              IF latest_dataset = <<>>
              THEN ErrorResponse("No data available", HTTP_404_NOT_FOUND)
              ELSE Response(HTTP_200_OK, "summary", "", 0,
                            <<get_dataset_summary(latest_dataset[1], equipment)>>,
                            NoDoc)
        /\ UNCHANGED <<datasets, equipment, clock, inflight>>

(* HistoryView.get *)

HistoryView_get ==
    LET ds == slice_to(order_by_upload_date_desc(Range(datasets)), HistoryLimit)
    IN  /\ request' = [NoRequest EXCEPT !.op = "history"]
        /\ response' =
              Response(HTTP_200_OK, "history", "", 0,
                       [i \in DOMAIN ds |-> get_dataset_summary(ds[i], equipment)],
                       NoDoc)
        /\ UNCHANGED <<datasets, equipment, clock, inflight>>

----------------------------------------------------------------------------
(* PDFReportView.get *)

two_digits(n) == IF n < 10 THEN "0" \o ToString(n) ELSE ToString(n)

\* f"{x:.2f}" of a non-negative number num/den
format_2f(x) ==
    LET h == (200 * x.num + x.den) \div (2 * x.den)
    IN  ToString(h \div 100) \o "." \o two_digits(h % 100)

\* f"{x}" of a float with an integral value
format_float(x) == ToString(x) \o ".0"

build_document(dataset, summary) ==
    LET top == slice_to(summary.data, ReportRowLimit)
    IN  [attachment |-> <<"r", "e", "p", "o", "r", "t", "_">> \o dataset.filename
                          \o <<".", "p", "d", "f">>,
         title |-> dataset.filename,
         upload_date |-> dataset.upload_date,
         stats |-> << <<"Flowrate", format_2f(summary.avg_flowrate)>>,
                      <<"Pressure", format_2f(summary.avg_pressure)>>,
                      <<"Temperature", format_2f(summary.avg_temperature)>> >>,
         rows |-> [i \in DOMAIN top |->
                      <<top[i].Equipment_Name, top[i].Type,
                        format_float(top[i].Flowrate),
                        format_float(top[i].Pressure),
                        format_float(top[i].Temperature)>>]]

\* only  except Exception as e
pdf_except_any(e) == ErrorResponse(e.msg, HTTP_500_INTERNAL_SERVER_ERROR)

\* except Dataset.DoesNotExist / except Exception as e
pdf_except(e) ==
    IF e.type = "DoesNotExist"
    THEN ErrorResponse("Dataset not found", HTTP_404_NOT_FOUND)
    ELSE ErrorResponse(e.msg, HTTP_500_INTERNAL_SERVER_ERROR)

\* render_fails: doc.build (or anything else in the try block) raises
PDFReportView_get(pk, render_fails) ==
    LET got == Dataset_objects_get(datasets, pk)
    IN  /\ request' = [NoRequest EXCEPT !.op = "pdf", !.pk = pk,
                                        !.render_fails = render_fails]
        /\ response' =
              IF got.exc # NoExc THEN pdf_except(got.exc)
              ELSE IF render_fails
              THEN pdf_except([type |-> "LayoutError", msg |-> "build failed"])
              ELSE Response(HTTP_200_OK, "pdf", "", 0, <<>>,
                            build_document(got.dataset[1],
                                get_dataset_summary(got.dataset[1], equipment)))
        /\ UNCHANGED <<datasets, equipment, clock, inflight>>

----------------------------------------------------------------------------
(* Concurrent service: the upload handler runs in autocommit mode, so the   *)
(* Dataset row is committed by Dataset.objects.create and the Equipment     *)
(* rows by bulk_create; requests of other workers are served in between.    *)

UploadBegin(req) ==
    \E a \in {upload_first_part(req, datasets, clock)} :
        /\ req.op = "upload"
        /\ request' = req
        /\ datasets' = a.datasets
        /\ clock' = IF a.datasets = datasets THEN clock ELSE clock + 1
        /\ equipment' = equipment
        /\ IF a.done
           THEN /\ inflight' = inflight
                /\ response' = a.response
           ELSE /\ Len(inflight) < MaxInflight
                /\ inflight' = Append(inflight, [pending |-> a.pending, req |-> req])
                /\ response' = NoResponse

UploadFinish(k) ==
    \E b \in {upload_second_part(inflight[k].pending, equipment)} :
        /\ request' = inflight[k].req
        /\ equipment' = b.equipment
        /\ response' = b.response
        /\ inflight' = [i \in 1..(Len(inflight) - 1) |->
                           IF i < k THEN inflight[i] ELSE inflight[i + 1]]
        /\ UNCHANGED <<datasets, clock>>

----------------------------------------------------------------------------
(* Requests *)

csv_name == <<"d", ".", "c", "s", "v">>

other_names == {<<"d", ".", "t", "x", "t">>, <<"d", ".", "C", "S", "V">>,
                <<"c", "s", "v">>}

\* Rows of a file under the header required_cols
RowPool == {<<"Pump1", "Pump", "10", "2", "30">>,
            <<"Valve1", "Valve", "5", "1", "25">>,
            <<"Pump2", "Pump", "abc", "4", "40">>,
            <<"Valve2", "Valve", "20", "4", "hot">>}

RowSeqs == UNION {[1..n -> RowPool] : n \in 0..MaxRows}

ShortRowSeqs == {<<>>} \cup {<<r>> : r \in RowPool}

Upload(columns, rows) ==
    [NoRequest EXCEPT !.op = "upload", !.has_file = TRUE, !.name = csv_name,
                      !.parses = TRUE, !.columns = columns, !.rows = rows]

\* the same file with the first two columns exchanged
swapped(rows) ==
    [i \in DOMAIN rows |->
        <<rows[i][2], rows[i][1], rows[i][3], rows[i][4], rows[i][5]>>]

\* the same file without its Pressure column
dropped(rows) ==
    [i \in DOMAIN rows |-> <<rows[i][1], rows[i][2], rows[i][3], rows[i][5]>>]

UploadRequests ==
    {[NoRequest EXCEPT !.op = "upload"]}
    \cup {[Upload(required_cols, <<>>) EXCEPT !.name = n] : n \in other_names}
    \cup {[Upload(<<>>, <<>>) EXCEPT !.parses = FALSE]}
    \cup {Upload(required_cols, rows) : rows \in RowSeqs}
    \cup {Upload(<<"Type", "Equipment Name", "Flowrate", "Pressure", "Temperature">>,
                 swapped(rows)) : rows \in ShortRowSeqs}
    \cup {Upload(<<"Equipment Name", "Type", "flowrate", "Pressure", "Temperature">>,
                 rows) : rows \in ShortRowSeqs}
    \cup {Upload(<<"Equipment Name", "Type", "Flowrate", "Temperature">>,
                 dropped(rows)) : rows \in ShortRowSeqs}

HistoryRequests ==
    {Upload(required_cols, rows) : rows \in ShortRowSeqs}

----------------------------------------------------------------------------
(* Specifications *)

Init ==
    /\ datasets = <<>>
    /\ equipment = <<>>
    /\ clock = 1
    /\ inflight = <<>>
    /\ request = NoRequest
    /\ response = NoResponse

Post ==
    \E req \in UploadRequests :
        /\ Len(equipment) + Len(req.rows) <= MaxRecords
        /\ UploadView_post(req)
        /\ Len(datasets') <= MaxDatasets
        /\ Len(equipment') <= MaxRecords

Summary == SummaryView_get

History == HistoryView_get

Report == \E pk \in 0..(MaxDatasets + 1), render_fails \in BOOLEAN :
              PDFReportView_get(pk, render_fails)

Next == Post \/ Summary \/ History \/ Report

Spec == Init /\ [][Next]_vars

\* Many uploads of short files, for the history view
HistoryPost ==
    \E req \in HistoryRequests :
        /\ UploadView_post(req)
        /\ Len(datasets') <= MaxHistoryDatasets

HistoryNext == HistoryPost \/ History \/ Summary

HistorySpec == Init /\ [][HistoryNext]_vars

\* Requests served concurrently with uploads
Begin ==
    \E req \in UploadRequests :
        /\ Len(equipment) + Len(req.rows) <= MaxRecords
        /\ UploadBegin(req)
        /\ Len(datasets') <= MaxDatasets

Finish == \E k \in DOMAIN inflight : UploadFinish(k)

ConcurrentNext == Begin \/ Finish \/ Summary \/ History \/ Report

ConcurrentSpec == Init /\ [][ConcurrentNext]_vars

----------------------------------------------------------------------------
(* Vocabulary of the properties, over the request last served *)

NumericCols == {"Flowrate", "Pressure", "Temperature"}

ColumnIndex(columns, col) == CHOOSE i \in DOMAIN columns : columns[i] = col

Cell(req, i, col) == req.rows[i][ColumnIndex(req.columns, col)]

HasFile(req) == req.op = "upload" /\ req.has_file

NamedCsv(req) ==
    /\ Len(req.name) >= 4
    /\ \A k \in 1..4 : req.name[Len(req.name) - 4 + k] = csv_suffix[k]

AllColumnsPresent(req) ==
    \A k \in DOMAIN required_cols :
        \E j \in DOMAIN req.columns : req.columns[j] = required_cols[k]

\* The cells of the numeric columns that are not numbers
BadCells(req) ==
    {Cell(req, i, col) : i \in DOMAIN req.rows, col \in NumericCols}
        \ DOMAIN NumericLiteral

ParsedCsv(req) == HasFile(req) /\ NamedCsv(req) /\ req.parses

NonNumericUpload(req) ==
    ParsedCsv(req) /\ AllColumnsPresent(req) /\ BadCells(req) # {}

ValidUpload(req) ==
    ParsedCsv(req) /\ AllColumnsPresent(req) /\ BadCells(req) = {}

MissingColumnUpload(req) == ParsedCsv(req) /\ ~AllColumnsPresent(req)

RecordsOf(eq, id) == SelectSeq(eq, LAMBDA e : e.dataset = id)

IsClientError(status) == status >= 400 /\ status < 500

IsServerError(status) == status >= 500 /\ status < 600

----------------------------------------------------------------------------
\* C1: an upload with all five columns and a non-numeric value in Flowrate,
\* Pressure or Temperature fails and leaves the store exactly as it was: no
\* dataset and no record is added.
C1_NonNumericUploadCreatesNothing ==
    [][NonNumericUpload(request')
         => /\ response'.status # HTTP_201_CREATED
            /\ datasets' = datasets
            /\ equipment' = equipment]_vars

\* C2: a valid upload adds exactly one dataset, answers 201 with its id, attaches
\* one record per row with the row's values in row order, and leaves the records
\* of every other dataset as they were.
C2_ValidUploadCreatesDataset ==
    [][ValidUpload(request')
         => LET req == request'
                new == datasets'[Len(datasets')]
                recs == RecordsOf(equipment', new.id)
            IN  /\ Len(datasets') = Len(datasets) + 1
                /\ SubSeq(datasets', 1, Len(datasets)) = datasets
                /\ \A i \in DOMAIN datasets : datasets[i].id # new.id
                /\ response'.status = HTTP_201_CREATED
                /\ response'.id = new.id
                /\ Len(recs) = Len(req.rows)
                /\ \A i \in DOMAIN req.rows :
                      /\ recs[i].name = Cell(req, i, "Equipment Name")
                      /\ recs[i].type = Cell(req, i, "Type")
                      /\ recs[i].flowrate = NumericLiteral[Cell(req, i, "Flowrate")]
                      /\ recs[i].pressure = NumericLiteral[Cell(req, i, "Pressure")]
                      /\ recs[i].temperature =
                             NumericLiteral[Cell(req, i, "Temperature")]
                /\ \A i \in DOMAIN datasets :
                      RecordsOf(equipment', datasets[i].id)
                          = RecordsOf(equipment, datasets[i].id)
                /\ Len(equipment') = Len(equipment) + Len(req.rows)]_vars

\* C2 witness: a valid upload of two different rows was answered 201 while
\* another dataset with records of its own was in the store.
C2_Witness ==
    /\ ValidUpload(request)
    /\ Len(request.rows) = 2
    /\ request.rows[1] # request.rows[2]
    /\ response.status = HTTP_201_CREATED
    /\ Len(datasets) >= 2
    /\ RecordsOf(equipment, response.id) # <<>>
    /\ \E i \in DOMAIN datasets :
          /\ datasets[i].id # response.id
          /\ RecordsOf(equipment, datasets[i].id) # <<>>

\* C3: an upload whose table lacks a required column (exact, case-sensitive
\* names) is answered with a client error and adds no dataset and no record.
C3_MissingColumnRejected ==
    [][MissingColumnUpload(request')
         => /\ IsClientError(response'.status)
            /\ response'.kind = "error"
            /\ datasets' = datasets
            /\ equipment' = equipment]_vars

\* C3 witness: a file with rows whose header spells a required column in
\* another case was rejected while the store held data.
C3_Witness ==
    /\ MissingColumnUpload(request)
    /\ "flowrate" \in Range(request.columns)
    /\ request.rows # <<>>
    /\ response.status = HTTP_400_BAD_REQUEST
    /\ datasets # <<>>

----------------------------------------------------------------------------
(* What a read request observed *)

IsRead(req) == req.op \in {"summary", "history", "pdf"}

\* The ids of the datasets the last read request was answered from
ObservedIds ==
    IF request.op \in {"summary", "history"}
    THEN {response.summaries[i].id : i \in DOMAIN response.summaries}
    ELSE IF request.op = "pdf" /\ response.status = HTTP_200_OK
    THEN {request.pk}
    ELSE {}

\* The datasets whose upload has created the Dataset row and still holds
\* records that bulk_create is about to insert
AwaitingRecords ==
    {inflight[k].pending.dataset :
        k \in {j \in DOMAIN inflight :
                  /\ inflight[j].pending.equipment_list # <<>>
                  /\ first_prep_error(inflight[j].pending.equipment_list) = NoExc}}

\* C4: a read request never observes a dataset that exists but whose records
\* have not yet been bulk-inserted.
C4_NoPartialDatasetObserved ==
    IsRead(request) => ObservedIds \cap AwaitingRecords = {}

\* The exception an upload that passed the three checks ends with, if any
UploadExceptionTexts(req) ==
    IF ~req.parses THEN {"Error tokenizing data"}
    ELSE {"expected a number but got " \o c : c \in BadCells(req)}

UploadRaises(req) ==
    /\ HasFile(req)
    /\ NamedCsv(req)
    /\ \/ ~req.parses
       \/ AllColumnsPresent(req) /\ BadCells(req) # {}

\* C5 as stated: an upload that passed the file, suffix and column checks and
\* then raised is answered with a client error carrying the exception's text.
C5_ExceptionIsClientError ==
    UploadRaises(request)
        => /\ IsClientError(response.status)
           /\ response.error \in UploadExceptionTexts(request)

\* C5 amended: such an upload is answered with the server-error status 500,
\* never a client error, and the response carries the exception's text.
C5_ExceptionIsServerError ==
    UploadRaises(request)
        => /\ response.status = HTTP_500_INTERNAL_SERVER_ERROR
           /\ ~IsClientError(response.status)
           /\ response.kind = "error"
           /\ response.error \in UploadExceptionTexts(request)

\* C5 witness: a parsed file with all columns and a non-numeric temperature
\* raised in bulk_create and was answered with the exception's text.
C5_Witness ==
    /\ UploadRaises(request)
    /\ request.parses
    /\ response.error = "expected a number but got hot"
    /\ IsServerError(response.status)

----------------------------------------------------------------------------
\* A summary is full: it names a stored dataset and lists every record of
\* that dataset now in the store, in order.
FullSummary(s) ==
    /\ \E d \in Range(datasets) :
          d.id = s.id /\ d.upload_date = s.upload_date /\ d.filename = s.filename
    /\ LET recs == RecordsOf(equipment, s.id)
       IN  /\ Len(s.data) = Len(recs)
           /\ \A i \in DOMAIN recs :
                 /\ s.data[i].id = recs[i].id
                 /\ s.data[i].Equipment_Name = recs[i].name
                 /\ s.data[i].Type = recs[i].type
                 /\ s.data[i].Flowrate = recs[i].flowrate
                 /\ s.data[i].Pressure = recs[i].pressure
                 /\ s.data[i].Temperature = recs[i].temperature

\* An average is the mean of the values: avg * count = sum (0 for no values)
IsMean(avg, values) ==
    /\ avg.tag # "None"
    /\ IF values = <<>> THEN avg.num = 0
       ELSE avg.num * Len(values) = SumSeq(values) * avg.den

SummaryComputedFromStore(s) ==
    /\ FullSummary(s)
    /\ LET recs == RecordsOf(equipment, s.id)
       IN  /\ IsMean(s.avg_flowrate, [i \in DOMAIN recs |-> recs[i].flowrate])
           /\ IsMean(s.avg_pressure, [i \in DOMAIN recs |-> recs[i].pressure])
           /\ IsMean(s.avg_temperature,
                     [i \in DOMAIN recs |-> recs[i].temperature])

\* C6: history returns full summaries of the most recently uploaded datasets,
\* newest first: 5 of them when the store holds more than 5, all of them
\* otherwise, and no omitted dataset is newer than an included one.
C6_HistoryNewestFive ==
    request.op = "history"
        => LET h == response.summaries
           IN  /\ response.status = HTTP_200_OK
               /\ Len(h) = (IF Len(datasets) > 5 THEN 5 ELSE Len(datasets))
               /\ \A i \in DOMAIN h : FullSummary(h[i])
               /\ \A i, j \in DOMAIN h :
                     i < j => h[i].upload_date > h[j].upload_date
               /\ \A d \in Range(datasets) :
                     (\A i \in DOMAIN h : h[i].id # d.id)
                         => \A i \in DOMAIN h : d.upload_date < h[i].upload_date

\* C6 witness: history was served from a store of more than 5 datasets, some
\* of them with records.
C6_Witness ==
    /\ request.op = "history"
    /\ Len(datasets) > 5
    /\ Len(response.summaries) = 5
    /\ \E i \in DOMAIN response.summaries : response.summaries[i].data # <<>>

\* C7: summary retrieval answers not-found exactly when the store holds no
\* dataset, and otherwise returns the summary of the dataset uploaded last,
\* computed from the records now in the store.
C7_SummaryOfLatest ==
    request.op = "summary"
        => /\ (response.status = HTTP_404_NOT_FOUND) <=> (datasets = <<>>)
           /\ datasets # <<>>
                 => /\ response.status = HTTP_200_OK
                    /\ Len(response.summaries) = 1
                    /\ SummaryComputedFromStore(response.summaries[1])
                    /\ \A d \in Range(datasets) :
                          d.upload_date <= response.summaries[1].upload_date

\* C7 witness: the summary was served after two uploads, the later of which
\* has records.
C7_Witness ==
    /\ request.op = "summary"
    /\ response.status = HTTP_200_OK
    /\ Len(datasets) >= 2
    /\ response.summaries[1].data # <<>>
    /\ response.summaries[1].id = datasets[Len(datasets)].id

\* C8: a report for an identifier that names no dataset is answered not-found,
\* and the server-error status is returned only when the dataset exists.
C8_UnknownIdIsNotFound ==
    request.op = "pdf"
        => /\ (\A d \in Range(datasets) : d.id # request.pk)
                 => response.status = HTTP_404_NOT_FOUND
           /\ IsServerError(response.status)
                 => \E d \in Range(datasets) : d.id = request.pk

\* C8 witness: a report was asked for an unknown identifier while the store
\* held datasets, and was answered not-found.
C8_Witness ==
    /\ request.op = "pdf"
    /\ datasets # <<>>
    /\ \A d \in Range(datasets) : d.id # request.pk
    /\ response.status = HTTP_404_NOT_FOUND

----------------------------------------------------------------------------
RECURSIVE SumOver(_, _)
SumOver(f, keys) ==
    IF keys = {} THEN 0
    ELSE LET k == CHOOSE x \in keys : TRUE
         IN  f[k] + SumOver(f, keys \ {k})

\* C9: for every dataset in the store, type_distribution maps each type that
\* occurs among its records to the number of records of that type, and its
\* counts add up to the number of records in the summary.
C9_TypeDistributionCounts ==
    \A n \in DOMAIN datasets :
        LET s == get_dataset_summary(datasets[n], equipment)
            recs == RecordsOf(equipment, datasets[n].id)
            dist == s.type_distribution
        IN  /\ DOMAIN dist = {recs[i].type : i \in DOMAIN recs}
            /\ \A t \in DOMAIN dist :
                  dist[t] = Cardinality({i \in DOMAIN recs : recs[i].type = t})
            /\ SumOver(dist, DOMAIN dist) = Len(s.data)
            /\ Len(s.data) = Len(recs)

\* C9 witness: a dataset with two records of one type, beside another
\* dataset with records.
C9_Witness ==
    \E n, m \in DOMAIN datasets :
        LET dist == get_dataset_summary(datasets[n], equipment).type_distribution
        IN  /\ n # m
            /\ RecordsOf(equipment, datasets[m].id) # <<>>
            /\ \E t \in DOMAIN dist : dist[t] = 2

\* C10: the summary of a dataset with zero records has the three averages
\* equal to 0 (a number, not None), an empty type_distribution and an empty
\* record list.
C10_EmptyDatasetSummary ==
    \A i \in DOMAIN response.summaries :
        LET s == response.summaries[i]
        IN  RecordsOf(equipment, s.id) = <<>>
                => /\ s.avg_flowrate = PyInt(0)
                   /\ s.avg_pressure = PyInt(0)
                   /\ s.avg_temperature = PyInt(0)
                   /\ DOMAIN s.type_distribution = {}
                   /\ s.data = <<>>

\* C10 witness: the summary view answered with a dataset that has no records.
C10_Witness ==
    /\ request.op = "summary"
    /\ response.status = HTTP_200_OK
    /\ RecordsOf(equipment, response.summaries[1].id) = <<>>
    /\ response.summaries[1].data = <<>>

====
